---- MODULE Spec2Model ----
(***************************************************************************)
(* Model of the chat-session backend in src/server.js.  The file holds two *)
(* deployments of the same session store: an Express server (lines 1-142)  *)
(* and a serverless handler (lines 144-356).  `variant` says which one is  *)
(* running; the store functions are the same in both.  Node runs one       *)
(* handler at a time: a handler is one step, and the Express chat route is *)
(* two, the second being its setTimeout callback.                          *)
(***************************************************************************)
EXTENDS Integers, Sequences, FiniteSets, TLC

\* Bounds of the model.
MaxUuid == 4
MaxTicks == 1

\* Program constants.
TimerDelay == 1000
SubstringEnd == 20

VARIABLES
    variant,    \* "express" or "lambda": which program of the file is running
    sessions,   \* the sessions object, as the sequence of its own values in insertion order
    uuids,      \* number of uuidv4() calls made so far
    clock,      \* the wall clock read by new Date(), in ms
    timers,     \* pending setTimeout callbacks (Express), in firing order
    crashed,    \* the Express process has exited on an uncaught exception
    last        \* the request or call being answered and its response; Idle between two

vars == <<variant, sessions, uuids, clock, timers, crashed, last>>

------------------------------------------------------------------------------
\* JavaScript values that travel through requests and message fields.

Undefined == [t |-> "undefined", s |-> <<>>]
Null == [t |-> "null", s |-> <<>>]
Str(cs) == [t |-> "string", s |-> cs]
Number42 == [t |-> "number", s |-> <<"42">>]
\* A value inherited from Object.prototype (sessions["constructor"]): truthy, no .messages.
Inherited == [t |-> "function", s |-> <<>>]
\* What a call that throws produces instead of a return value.
TypeError == [t |-> "TypeError", s |-> <<>>]
\* A JavaScript array, as a response body.
Array(items) == [t |-> "array", items |-> items]
\* A request body that is not an object: unparsable JSON, or the JSON value null.
BadBody == [t |-> "bad-body", s |-> <<>>]

\* JavaScript truthiness, as used by `!x` and `x || y`.
Truthy(v) ==
    \/ v.t = "string" /\ v.s # <<>>
    \/ v.t = "number" /\ v.s # <<"0">>
    \/ v.t \in {"object", "function", "session"}

OrNull(v) == IF Truthy(v) THEN v ELSE Null

\* query.substring(0, 20)
substring(cs, end) == SubSeq(cs, 1, IF Len(cs) < end THEN Len(cs) ELSE end)

LongQuestion == [i \in 1..(SubstringEnd + 1) |-> "x"]

\* Values a client can send as body.question.
Questions == {Undefined, Str(<<>>), Str(LongQuestion), Number42}

\* Values a client can send as body.feedback.
Feedbacks == {Undefined, Str(<<>>), Str(<<"like">>), Str(<<"dislike">>)}

\* Property names every plain object inherits from Object.prototype.
ObjectPrototypeKeys == {"constructor", "__proto__"}

\* The n-th identifier uuidv4() returns: fresh on every call.
uuidv4(n) == "u" \o ToString(n)

\* Identifiers a client can name: those handed out so far and one that never was.
KnownIds == {uuidv4(n) : n \in 1..uuids} \cup {"unknown"}

\* Session identifiers a client can name: also an inherited property name.
ClientIds == KnownIds \cup {"constructor"}

\* new Date().toISOString() and new Date(iso) (getTime), exact to the ms.
toISOString(t) == <<"ISO", t>>
DateParse(iso) == iso[2]

\* toLocaleTimeString with hour, minute, second: the time of day to the second.
toLocaleTimeString(iso) == (DateParse(iso) \div 1000) % 86400

------------------------------------------------------------------------------
\* The session store.

\* Position of the own property `id` of the sessions object, 0 when absent.
SessionIndex(ss, id) ==
    IF \E i \in 1..Len(ss) : ss[i].id = id
    THEN CHOOSE i \in 1..Len(ss) : ss[i].id = id
    ELSE 0

\* sessions[id]: an own property, else an inherited one, else undefined.
Lookup(ss, id) ==
    IF SessionIndex(ss, id) # 0 THEN ss[SessionIndex(ss, id)]
    ELSE IF id \in ObjectPrototypeKeys THEN Inherited
    ELSE Undefined

IsSession(v) == v.t = "session"

createSession(ss, title, id, now) ==
    LET createdAt == toISOString(now)
        sTitle == IF Truthy(title) THEN title
                  ELSE Str(<<"Chat - ", ToString(toLocaleTimeString(createdAt))>>)
        rec == [t |-> "session", id |-> id, title |-> sTitle,
                createdAt |-> createdAt, messages |-> <<>>]
    IN [sessions |-> Append(ss, rec), ret |-> rec]

\* Mutant: the comparator with its operands swapped (oldest first).
compareCreatedAtAscending(a, b) == DateParse(a.createdAt) - DateParse(b.createdAt)

\* (a, b) => new Date(b.createdAt) - new Date(a.createdAt)
compareCreatedAt(a, b) == DateParse(b.createdAt) - DateParse(a.createdAt)

\* Array.prototype.sort is stable: e goes after every element that does not sort after it.
RECURSIVE InsertSorted(_, _)
InsertSorted(sorted, e) ==
    IF sorted = <<>> THEN <<e>>
    ELSE IF compareCreatedAt(sorted[Len(sorted)], e) <= 0 THEN Append(sorted, e)
    ELSE Append(InsertSorted(SubSeq(sorted, 1, Len(sorted) - 1), e), sorted[Len(sorted)])

RECURSIVE sort(_)
sort(seq) ==
    IF seq = <<>> THEN <<>>
    ELSE InsertSorted(sort(SubSeq(seq, 1, Len(seq) - 1)), seq[Len(seq)])

SessionSummary(s) ==
    [id |-> s.id, title |-> s.title, createdAt |-> s.createdAt,
     messageCount |-> Len(s.messages)]

listSessions(ss) == sort([i \in 1..Len(ss) |-> SessionSummary(ss[i])])

getSession(ss, id) == OrNull(Lookup(ss, id))

\* Mutant: unshift instead of push.
addMessageUnshift(ss, sessionId, role, text, structured, feedback, id, now) ==
    LET s == Lookup(ss, sessionId) IN
    IF ~Truthy(s) THEN [sessions |-> ss, ret |-> Null]
    ELSE IF ~IsSession(s) THEN [sessions |-> ss, ret |-> TypeError]
    ELSE LET msg == [t |-> "message", id |-> id, role |-> role, text |-> text,
                     structured |-> structured, feedback |-> feedback,
                     createdAt |-> toISOString(now)]
         IN [sessions |-> [ss EXCEPT ![SessionIndex(ss, sessionId)].messages = <<msg>> \o @],
             ret |-> msg]

\* Mutant: the message list is reassigned instead of pushed to.
addMessageReplace(ss, sessionId, role, text, structured, feedback, id, now) ==
    LET s == Lookup(ss, sessionId) IN
    IF ~Truthy(s) THEN [sessions |-> ss, ret |-> Null]
    ELSE IF ~IsSession(s) THEN [sessions |-> ss, ret |-> TypeError]
    ELSE LET msg == [t |-> "message", id |-> id, role |-> role, text |-> text,
                     structured |-> structured, feedback |-> feedback,
                     createdAt |-> toISOString(now)]
         IN [sessions |-> [ss EXCEPT ![SessionIndex(ss, sessionId)].messages = <<msg>>],
             ret |-> msg]

\* addMessage: the store after the call and what the call returns (TypeError: it throws).
addMessage(ss, sessionId, role, text, structured, feedback, id, now) ==
    LET s == Lookup(ss, sessionId) IN
    IF ~Truthy(s) THEN [sessions |-> ss, ret |-> Null]
    \* s.messages is undefined on an inherited value: push throws
    ELSE IF ~IsSession(s) THEN [sessions |-> ss, ret |-> TypeError]
    ELSE LET msg == [t |-> "message", id |-> id, role |-> role, text |-> text, structured |-> structured,
                     feedback |-> feedback, createdAt |-> toISOString(now)]
         IN [sessions |-> [ss EXCEPT ![SessionIndex(ss, sessionId)].messages = Append(@, msg)],
             ret |-> msg]

\* sampleStructuredResponse (Express); the caller checks that query is a string,
\* since query.substring throws on anything else.  The two Math.random() cells
\* of the table are mock data no operation reads; they are left out.
sampleStructuredResponse(query, now) ==
    [t |-> "object",
     description |-> Str(<<"Here is a mock analysis for your query about \"">>
                         \o substring(query.s, SubstringEnd) \o <<"...\":">>),
     table |-> [queryLength |-> Len(query.s), generatedAt |-> toISOString(now)]]

\* structuredReply (serverless)
structuredReply(query, now) ==
    [t |-> "object",
     description |-> Str(<<"Processed your query: \"">>
                         \o substring(query.s, SubstringEnd) \o <<"...\"">>),
     table |-> [queryLength |-> Len(query.s), generatedAt |-> toISOString(now)]]

\* The message view returned by GET /session/:id.
MessageView(m) ==
    [id |-> m.id, type |-> m.role, content |-> m.text,
     tabularData |-> IF Truthy(m.structured) THEN m.structured.table ELSE Undefined,
     timestamp |-> m.createdAt, feedback |-> OrNull(m.feedback)]

History(s) == [j \in 1..Len(s.messages) |-> MessageView(s.messages[j])]

\* The body of the chat reply.
ChatReply(assistant, session) ==
    [id |-> assistant.id, type |-> assistant.role, content |-> assistant.text,
     tabularData |-> assistant.structured.table, timestamp |-> assistant.createdAt,
     feedback |-> OrNull(assistant.feedback), newTitle |-> session.title]

\* Mutant: the role test is missing.
MatchesAnyRole(m, messageId) == m.id = messageId

\* m => m.id === messageId && m.role === 'assistant'
MatchesFeedbackTarget(m, messageId) == m.id = messageId /\ m.role = "assistant"

\* messages.find(...): position of the first match, 0 when there is none.
FindMessage(msgs, messageId) ==
    IF \E j \in 1..Len(msgs) : MatchesFeedbackTarget(msgs[j], messageId)
    THEN CHOOSE j \in 1..Len(msgs) :
            /\ MatchesFeedbackTarget(msgs[j], messageId)
            /\ \A k \in 1..(j - 1) : ~MatchesFeedbackTarget(msgs[k], messageId)
    ELSE 0

\* Mutant: a feedback already given is kept.
setFeedbackKeepFirst(ss, messageId, feedback) ==
    IF \E i \in 1..Len(ss) : FindMessage(ss[i].messages, messageId) # 0
    THEN LET i == CHOOSE i \in 1..Len(ss) : FindMessage(ss[i].messages, messageId) # 0
             j == FindMessage(ss[i].messages, messageId)
         IN [sessions |-> IF Truthy(ss[i].messages[j].feedback) THEN ss
                          ELSE [ss EXCEPT ![i].messages[j].feedback = feedback],
             found |-> TRUE, prior |-> ss[i].messages[j].feedback]
    ELSE [sessions |-> ss, found |-> FALSE, prior |-> Undefined]

\* Mutant: found starts out true.
setFeedbackAlwaysFound(ss, messageId, feedback) ==
    IF \E i \in 1..Len(ss) : FindMessage(ss[i].messages, messageId) # 0
    THEN LET i == CHOOSE i \in 1..Len(ss) : FindMessage(ss[i].messages, messageId) # 0
             j == FindMessage(ss[i].messages, messageId)
         IN [sessions |-> [ss EXCEPT ![i].messages[j].feedback = feedback],
             found |-> TRUE, prior |-> ss[i].messages[j].feedback]
    ELSE [sessions |-> ss, found |-> TRUE, prior |-> Undefined]

\* The feedback loop over Object.values(sessions): the first session holding a
\* match gets msg.feedback = feedback, then the loop breaks.
setFeedback(ss, messageId, feedback) ==
    IF \E i \in 1..Len(ss) : FindMessage(ss[i].messages, messageId) # 0
    THEN LET i == CHOOSE i \in 1..Len(ss) :
                    /\ FindMessage(ss[i].messages, messageId) # 0
                    /\ \A k \in 1..(i - 1) : FindMessage(ss[k].messages, messageId) = 0
             j == FindMessage(ss[i].messages, messageId)
         IN [sessions |-> [ss EXCEPT ![i].messages[j].feedback = feedback],
             found |-> TRUE, prior |-> ss[i].messages[j].feedback]
    ELSE [sessions |-> ss, found |-> FALSE, prior |-> Undefined]

------------------------------------------------------------------------------
\* Requests and responses.

\* The record kept of a request: the route taken, the id parsed from the path,
\* the body value used, the status sent (0: none) and the body returned.
\* userMsgId is the id of the user message a chat request appended; prior is
\* the feedback a message held before a feedback request overwrote it.
Response(op, id, val, status, ret) ==
    [op |-> op, id |-> id, val |-> val, status |-> status, ret |-> ret,
     userMsgId |-> "", prior |-> Undefined]

\* No request is being handled: the event loop waits for the next event.
Idle == Response("idle", "", Undefined, 0, Null)

Init ==
    /\ variant \in {"express", "lambda"}
    /\ sessions = <<>>
    /\ uuids = 0
    /\ clock = 0
    /\ timers = <<>>
    /\ crashed = FALSE
    /\ last = Idle

\* Time passes: by a millisecond, or by the length of the reply delay.
TickCount(t) == (t \div TimerDelay) + (t % TimerDelay)

Tick ==
    /\ ~crashed
    /\ last = Idle
    /\ \E d \in {1, TimerDelay} :
        /\ TickCount(clock + d) <= MaxTicks
        /\ clock' = clock + d
    /\ UNCHANGED <<variant, sessions, uuids, timers, crashed, last>>

\* The handler (or call) has returned and its response, if any, is written:
\* Node runs handlers one at a time, so the next event is taken only now.
Done ==
    /\ last # Idle
    /\ last' = Idle
    /\ UNCHANGED <<variant, sessions, uuids, clock, timers, crashed>>

\* Identifiers still to be handed out within the bound.
FreeUuids == MaxUuid - uuids

------------------------------------------------------------------------------
\* The Express server.

ExpressUp == variant = "express" /\ ~crashed /\ last = Idle

\* app.get('/api/sessions')
ExpressGetSessions ==
    /\ ExpressUp
    /\ last' = Response("sessions", "", Undefined, 200, Array(listSessions(sessions)))
    /\ UNCHANGED <<variant, sessions, uuids, clock, timers, crashed>>

\* app.get('/api/new-chat')
ExpressNewChat ==
    /\ ExpressUp
    /\ FreeUuids >= 1
    /\ LET r == createSession(sessions, Null, uuidv4(uuids + 1), clock) IN
        /\ sessions' = r.sessions
        /\ uuids' = uuids + 1
        /\ last' = Response("new-chat", "", Undefined, 200,
                            [sessionId |-> r.ret.id, createdAt |-> r.ret.createdAt])
    /\ UNCHANGED <<variant, clock, timers, crashed>>

\* app.get('/api/session/:id'); a throw in the handler is answered 500 by Express.
ExpressGetSession(id) ==
    /\ ExpressUp
    /\ LET session == getSession(sessions, id) IN
        last' = IF ~Truthy(session) THEN Response("session", id, Undefined, 404, Null)
                ELSE IF ~IsSession(session) THEN Response("session", id, Undefined, 500, Null)
                ELSE Response("session", id, Undefined, 200, Array(History(session)))
    /\ UNCHANGED <<variant, sessions, uuids, clock, timers, crashed>>

\* app.post('/api/chat/:id'), up to setTimeout: validation, the user message,
\* and the deferred reply scheduled.
ExpressPostChat(sessionId, userQuestion) ==
    /\ ExpressUp
    /\ FreeUuids >= 1
    /\ IF ~Truthy(userQuestion) \/ ~Truthy(getSession(sessions, sessionId))
       THEN /\ last' = Response("chat", sessionId, userQuestion, 400, Null)
            /\ UNCHANGED <<sessions, uuids, timers>>
       ELSE LET r == addMessage(sessions, sessionId, "user", userQuestion, Null, Null,
                                uuidv4(uuids + 1), clock)
            IN IF r.ret = TypeError
               THEN /\ last' = Response("chat", sessionId, userQuestion, 500, Null)
                    /\ UNCHANGED <<sessions, uuids, timers>>
               ELSE /\ sessions' = r.sessions
                    /\ uuids' = uuids + 1
                    /\ timers' = Append(timers, [sessionId |-> sessionId,
                                                 userQuestion |-> userQuestion,
                                                 due |-> clock + TimerDelay,
                                                 userMsgId |-> r.ret.id])
                    /\ last' = [Response("chat-pending", sessionId, userQuestion, 0, Null)
                                EXCEPT !.userMsgId = r.ret.id]
    /\ UNCHANGED <<variant, clock, crashed>>

\* The setTimeout callback of the oldest pending chat request.  An exception
\* thrown in it is uncaught: the process exits and nothing is answered.
ExpressTimeout ==
    /\ ExpressUp
    /\ timers # <<>>
    /\ clock >= Head(timers).due
    /\ FreeUuids >= 1
    /\ LET tm == Head(timers) IN
        IF tm.userQuestion.t # "string"
        THEN /\ crashed' = TRUE
             /\ timers' = <<>>
             /\ last' = [Response("chat", tm.sessionId, tm.userQuestion, 0, TypeError)
                         EXCEPT !.userMsgId = tm.userMsgId]
             /\ UNCHANGED <<sessions, uuids>>
        ELSE LET structuredData == sampleStructuredResponse(tm.userQuestion, clock)
                 r == addMessage(sessions, tm.sessionId, "assistant",
                                 structuredData.description, structuredData, Null,
                                 uuidv4(uuids + 1), clock)
             IN IF r.ret \in {Null, TypeError}
                THEN /\ crashed' = TRUE
                     /\ timers' = <<>>
                     /\ last' = [Response("chat", tm.sessionId, tm.userQuestion, 0, TypeError)
                                 EXCEPT !.userMsgId = tm.userMsgId]
                     /\ UNCHANGED <<sessions, uuids>>
                ELSE /\ sessions' = r.sessions
                     /\ uuids' = uuids + 1
                     /\ timers' = Tail(timers)
                     /\ crashed' = FALSE
                     /\ last' = [Response("chat", tm.sessionId, tm.userQuestion, 200,
                                          ChatReply(r.ret, getSession(r.sessions, tm.sessionId)))
                                 EXCEPT !.userMsgId = tm.userMsgId]
    /\ UNCHANGED <<variant, clock>>

\* app.post('/api/messages/:id/feedback')
ExpressPostFeedback(messageId, feedback) ==
    /\ ExpressUp
    /\ LET r == setFeedback(sessions, messageId, feedback) IN
        /\ sessions' = r.sessions
        /\ last' = IF ~r.found
                   THEN Response("feedback", messageId, feedback, 404, Null)
                   ELSE [Response("feedback", messageId, feedback, 200,
                                  [success |-> TRUE, feedback |-> feedback])
                         EXCEPT !.prior = r.prior]
    /\ UNCHANGED <<variant, uuids, clock, timers, crashed>>

------------------------------------------------------------------------------
\* The serverless handler.  event.path is modelled by its segments.

\* path.split("/").pop()
pop(path) == path[Len(path)]

\* path.endsWith("/" + seg)
endsWith(path, seg) == Len(path) >= 1 /\ path[Len(path)] = seg

\* path.includes("/" + seg + "/")
includes(path, seg) == \E i \in 1..(Len(path) - 1) : path[i] = seg

\* event.body after JSON.parse(event.body || "{}"): unparsable, the JSON
\* value null, or an object with its question and feedback fields.
Body(parse, question, feedback) ==
    [parse |-> parse, question |-> question, feedback |-> feedback]

NoBody == Body("object", Undefined, Undefined)
BadBodies == {Body("invalid", Undefined, Undefined), Body("null", Undefined, Undefined)}
ChatBodies == BadBodies \cup {Body("object", q, Undefined) : q \in Questions}
FeedbackBodies == BadBodies \cup {Body("object", Undefined, f) : f \in Feedbacks}

ReadPaths ==
    {<<"sessions">>, <<"new-chat">>, <<"health">>} \cup {<<"session", id>> : id \in ClientIds}
ChatPaths == {<<"chat", id>> : id \in ClientIds}
\* The documented path /messages/:id/feedback, and /messages/:id.
FeedbackPaths ==
    {<<"messages", id, "feedback">> : id \in KnownIds} \cup {<<"messages", id>> : id \in KnownIds}

Event(method, path, body) == [httpMethod |-> method, path |-> path, body |-> body]

\* The requests a client sends: a preflight, reads of every path, and posts
\* to every path, with a body of the kind the route reads.
Events ==
    {Event("OPTIONS", <<"sessions">>, NoBody)}
    \cup {Event("GET", p, NoBody) : p \in ReadPaths \cup ChatPaths \cup FeedbackPaths}
    \cup {Event("POST", p, NoBody) : p \in ReadPaths}
    \cup {Event("POST", p, b) : p \in ChatPaths, b \in ChatBodies}
    \cup {Event("POST", p, b) : p \in FeedbackPaths, b \in FeedbackBodies}

Outcome(ss, n, resp) == [sessions |-> ss, uuids |-> n, resp |-> resp]

\* POST /chat/:id
handleChat(event, ss, n, now) ==
    LET id == pop(event.path)
        session == getSession(ss, id)
        question == IF event.body.parse = "object" THEN event.body.question ELSE BadBody
    IN IF ~Truthy(session) THEN Outcome(ss, n, Response("chat", id, question, 400, Null))
       ELSE IF event.body.parse = "invalid"
       THEN Outcome(ss, n, Response("chat", id, question, 400, Null))
       \* body is null: body.question throws, the outer catch answers 500
       ELSE IF event.body.parse = "null"
       THEN Outcome(ss, n, Response("chat", id, question, 500, Null))
       ELSE IF ~Truthy(question) THEN Outcome(ss, n, Response("chat", id, question, 400, Null))
       ELSE LET user == addMessage(ss, id, "user", question, Null, Null, uuidv4(n + 1), now) IN
            IF user.ret = TypeError
            THEN Outcome(ss, n, Response("chat", id, question, 500, Null))
            \* query.substring throws on a non-string: 500, the user message stays
            ELSE IF question.t # "string"
            THEN Outcome(user.sessions, n + 1,
                         [Response("chat", id, question, 500, Null)
                          EXCEPT !.userMsgId = user.ret.id])
            ELSE LET structuredData == structuredReply(question, now)
                     assistant == addMessage(user.sessions, id, "assistant",
                                             structuredData.description, structuredData,
                                             Null, uuidv4(n + 2), now)
                 IN IF assistant.ret \in {Null, TypeError}
                    THEN Outcome(assistant.sessions, n + 1,
                                 [Response("chat", id, question, 500, Null)
                                  EXCEPT !.userMsgId = user.ret.id])
                    ELSE Outcome(assistant.sessions, n + 2,
                                 [Response("chat", id, question, 200,
                                           ChatReply(assistant.ret, session))
                                  EXCEPT !.userMsgId = user.ret.id])

\* POST /messages/:id/feedback
handleFeedback(event, ss, n) ==
    LET messageId == pop(event.path)
        feedback == IF event.body.parse = "object" THEN event.body.feedback ELSE BadBody
    IN IF event.body.parse = "invalid"
       THEN Outcome(ss, n, Response("feedback", messageId, feedback, 400, Null))
       ELSE IF event.body.parse = "null"
       THEN Outcome(ss, n, Response("feedback", messageId, feedback, 500, Null))
       ELSE IF ~Truthy(feedback)
       THEN Outcome(ss, n, Response("feedback", messageId, feedback, 400, Null))
       ELSE LET r == setFeedback(ss, messageId, feedback) IN
            IF ~r.found
            THEN Outcome(r.sessions, n, Response("feedback", messageId, feedback, 404, Null))
            ELSE Outcome(r.sessions, n,
                         [Response("feedback", messageId, feedback, 200,
                                   [success |-> TRUE, feedback |-> feedback])
                          EXCEPT !.prior = r.prior])

\* exports.handler: the routes in the order the code tests them.
handle(event, ss, n, now) ==
    LET path == event.path
        method == event.httpMethod
    IN IF method = "OPTIONS" THEN Outcome(ss, n, Response("options", "", Undefined, 200, Null))
       ELSE IF endsWith(path, "sessions") /\ method = "GET"
       THEN Outcome(ss, n, Response("sessions", "", Undefined, 200, Array(listSessions(ss))))
       ELSE IF endsWith(path, "new-chat") /\ method = "GET"
       THEN LET r == createSession(ss, Null, uuidv4(n + 1), now) IN
            Outcome(r.sessions, n + 1,
                    Response("new-chat", "", Undefined, 200,
                             [sessionId |-> r.ret.id, createdAt |-> r.ret.createdAt]))
       ELSE IF includes(path, "session") /\ method = "GET"
       THEN LET id == pop(path)
                session == getSession(ss, id)
            IN IF ~Truthy(session) THEN Outcome(ss, n, Response("session", id, Undefined, 404, Null))
               ELSE IF ~IsSession(session)
               THEN Outcome(ss, n, Response("session", id, Undefined, 500, Null))
               ELSE Outcome(ss, n, Response("session", id, Undefined, 200, Array(History(session))))
       ELSE IF includes(path, "chat") /\ method = "POST" THEN handleChat(event, ss, n, now)
       ELSE IF includes(path, "messages") /\ method = "POST" THEN handleFeedback(event, ss, n)
       ELSE Outcome(ss, n, Response("route-not-found", "", Undefined, 404, Null))

\* One invocation of exports.handler.
LambdaInvoke ==
    /\ variant = "lambda"
    /\ last = Idle
    /\ \E event \in Events :
        LET out == handle(event, sessions, uuids, clock) IN
        /\ out.uuids <= MaxUuid
        /\ sessions' = out.sessions
        /\ uuids' = out.uuids
        /\ last' = out.resp
    /\ UNCHANGED <<variant, clock, timers, crashed>>

------------------------------------------------------------------------------
\* The store's functions called directly, as a unit test calls them.

\* Arguments of the addMessage calls: role, text, and the optional feedback.
AddMessageArgs ==
    {[role |-> "user", text |-> Str(<<"h", "i">>), feedback |-> Null],
     [role |-> "assistant", text |-> Str(<<>>), feedback |-> Null],
     [role |-> "assistant", text |-> Str(<<"h", "i">>), feedback |-> Str(<<"like">>)]}

CallCreateSession ==
    /\ last = Idle
    /\ uuids < MaxUuid
    /\ \E title \in {Null, Str(<<"t">>)} :
        LET r == createSession(sessions, title, uuidv4(uuids + 1), clock) IN
        /\ sessions' = r.sessions
        /\ last' = Response("createSession", "", title, 0, r.ret)
    /\ uuids' = uuids + 1
    /\ UNCHANGED <<variant, clock, timers, crashed>>

CallListSessions ==
    /\ last = Idle
    /\ last' = Response("listSessions", "", Undefined, 0, Array(listSessions(sessions)))
    /\ UNCHANGED <<variant, sessions, uuids, clock, timers, crashed>>

CallGetSession ==
    /\ last = Idle
    /\ \E id \in ClientIds : last' = Response("getSession", id, Undefined, 0, getSession(sessions, id))
    /\ UNCHANGED <<variant, sessions, uuids, clock, timers, crashed>>

\* addMessage(sessionId, role, text, null, feedback); last.val holds the arguments.
CallAddMessage ==
    /\ last = Idle
    /\ uuids < MaxUuid
    /\ \E sessionId \in ClientIds, args \in AddMessageArgs :
        LET r == addMessage(sessions, sessionId, args.role, args.text, Null, args.feedback,
                            uuidv4(uuids + 1), clock)
        IN /\ sessions' = r.sessions
           /\ uuids' = IF r.ret \in {Null, TypeError} THEN uuids ELSE uuids + 1
           /\ last' = Response("addMessage", sessionId, args, 0, r.ret)
    /\ UNCHANGED <<variant, clock, timers, crashed>>

------------------------------------------------------------------------------

Next ==
    \/ Tick
    \/ Done
    \/ ExpressGetSessions
    \/ ExpressNewChat
    \/ \E id \in ClientIds : ExpressGetSession(id)
    \/ \E id \in ClientIds, q \in Questions : ExpressPostChat(id, q)
    \/ ExpressTimeout
    \/ \E id \in KnownIds, f \in Feedbacks : ExpressPostFeedback(id, f)
    \/ LambdaInvoke

Spec == Init /\ [][Next]_vars

StoreNext ==
    \/ Tick
    \/ Done
    \/ CallCreateSession
    \/ CallListSessions
    \/ CallGetSession
    \/ CallAddMessage

\* The store functions are the same in both programs: one is enough here.
StoreInit == Init /\ variant = "express"

StoreSpec == StoreInit /\ [][StoreNext]_vars

------------------------------------------------------------------------------
\* Properties.

\* Positions <<i, j>> of the messages of a store.
Positions(ss) == UNION {{<<i, j>> : j \in 1..Len(ss[i].messages)} : i \in 1..Len(ss)}

MessageAt(ss, p) == ss[p[1]].messages[p[2]]

\* An assistant message of the store carries this id.
HasAssistantMessage(ss, id) ==
    \E p \in Positions(ss) : MessageAt(ss, p).id = id /\ MessageAt(ss, p).role = "assistant"

\* A session without its messages.
Metadata(s) == [id |-> s.id, title |-> s.title, createdAt |-> s.createdAt]

\* C1: for every accepted chat request (answered 200), the user message it
\* appended is immediately followed, in its session, by the assistant reply it
\* appended, whatever other chat requests ran concurrently.
C1_ChatIsAtomic ==
    (last.op = "chat" /\ last.status = 200) =>
        \E p \in Positions(sessions) :
            /\ sessions[p[1]].id = last.id
            /\ MessageAt(sessions, p).id = last.userMsgId
            /\ p[2] < Len(sessions[p[1]].messages)
            /\ sessions[p[1]].messages[p[2] + 1].id = last.ret.id

\* C2: a feedback request whose body has no feedback field is answered 400
\* and changes no message, whatever the message id.
C2_MissingFeedbackIs400 ==
    [][(last'.op = "feedback" /\ last'.val = Undefined) =>
          (last'.status = 400 /\ sessions' = sessions)]_vars

\* C3: addMessage on an existing session id appends exactly one message at the
\* end of that session, returns it with the role and text given, and leaves
\* every other session's messages as they were.
C3_AddMessageAppends ==
    [][(last'.op = "addMessage" /\ SessionIndex(sessions, last'.id) # 0) =>
          LET i == SessionIndex(sessions, last'.id) IN
          /\ Len(sessions') = Len(sessions)
          /\ sessions'[i].messages = Append(sessions[i].messages, last'.ret)
          /\ Len(sessions'[i].messages) = Len(sessions[i].messages) + 1
          /\ last'.ret.role = last'.val.role
          /\ last'.ret.text = last'.val.text
          /\ \A k \in 1..Len(sessions) : k # i => sessions'[k].messages = sessions[k].messages]_vars

C3_Witness ==
    /\ last.op = "addMessage"
    /\ last.ret.t = "message"
    /\ Len(sessions) >= 2
    /\ \E i \in 1..Len(sessions) :
        /\ sessions[i].id = last.id
        /\ Len(sessions[i].messages) >= 2
        /\ sessions[i].messages[Len(sessions[i].messages)] = last.ret

\* C4: addMessage on a session id that is not in the store returns null and
\* changes nothing: the sessions and their messages are as before.
C4_UnknownIdReturnsNull ==
    [][(last'.op = "addMessage" /\ SessionIndex(sessions, last'.id) = 0) =>
          (last'.ret = Null /\ sessions' = sessions)]_vars

C6_FeedbackNotFound ==
    [][(last'.op = "feedback" /\ Truthy(last'.val) /\ ~HasAssistantMessage(sessions, last'.id)) =>
          (last'.status = 404 /\ sessions' = sessions /\ uuids' = uuids)]_vars

\* A feedback request on the id of a user message was answered 404.
C6_Witness ==
    /\ last.op = "feedback"
    /\ Truthy(last.val)
    /\ last.status = 404
    /\ \E p \in Positions(sessions) :
        MessageAt(sessions, p).id = last.id /\ MessageAt(sessions, p).role = "user"

\* C7: in every state the HTTP requests can reach, every message with role
\* user has feedback null.
C7_UserMessagesHaveNoFeedback ==
    \A p \in Positions(sessions) :
        MessageAt(sessions, p).role = "user" => MessageAt(sessions, p).feedback = Null

\* Feedback was set on an assistant message, and asked for on a user message.
C7_Witness ==
    /\ last.op = "feedback"
    /\ Truthy(last.val)
    /\ \E p \in Positions(sessions) :
        MessageAt(sessions, p).id = last.id /\ MessageAt(sessions, p).role = "user"
    /\ \E p \in Positions(sessions) :
        MessageAt(sessions, p).role = "assistant" /\ Truthy(MessageAt(sessions, p).feedback)

\* C8: listing the sessions changes nothing in the store and returns exactly
\* one entry for each stored session, with messageCount the length of its
\* message sequence, no entry having a createdAt later than an entry before it.
C8_ListSessions ==
    [][last'.op = "sessions" =>
          /\ sessions' = sessions
          /\ Len(last'.ret.items) = Len(sessions)
          /\ \A i \in 1..Len(sessions) :
                /\ Cardinality({k \in 1..Len(last'.ret.items) : last'.ret.items[k].id = sessions[i].id}) = 1
                /\ \A k \in 1..Len(last'.ret.items) :
                      last'.ret.items[k].id = sessions[i].id =>
                          last'.ret.items[k].messageCount = Len(sessions[i].messages)
          /\ \A k, l \in 1..Len(last'.ret.items) :
                k < l => DateParse(last'.ret.items[l].createdAt) <= DateParse(last'.ret.items[k].createdAt)]_vars

\* A listing of two sessions created at different times, one of them with messages.
C8_Witness ==
    /\ last.op = "sessions"
    /\ Len(last.ret.items) = 2
    /\ DateParse(last.ret.items[1].createdAt) > DateParse(last.ret.items[2].createdAt)
    /\ \E k \in 1..2 : last.ret.items[k].messageCount > 0

\* C9: every step keeps every session of the store, and keeps each session's
\* messages as a prefix of its messages after the step, with their ids, roles
\* and texts.
C9_AppendOnly ==
    [][/\ Len(sessions') >= Len(sessions)
       /\ \A i \in 1..Len(sessions) :
            /\ sessions'[i].id = sessions[i].id
            /\ Len(sessions'[i].messages) >= Len(sessions[i].messages)
            /\ \A j \in 1..Len(sessions[i].messages) :
                /\ sessions'[i].messages[j].id = sessions[i].messages[j].id
                /\ sessions'[i].messages[j].role = sessions[i].messages[j].role
                /\ sessions'[i].messages[j].text = sessions[i].messages[j].text]_vars

\* A session holding a chat exchange whose reply has been given feedback.
C9_Witness ==
    \E i \in 1..Len(sessions) :
        /\ Len(sessions[i].messages) >= 2
        /\ Truthy(sessions[i].messages[2].feedback)
        /\ Len(sessions) >= 2

\* C10: in the Express server, when the deferred callback of a validated chat
\* request has run, the request has been answered 200 with the id of the
\* assistant message the callback appended to the session.
C10_ChatIsAnswered ==
    (variant = "express" /\ last.op = "chat" /\ last.userMsgId # "") =>
        /\ last.status = 200
        /\ \E i \in 1..Len(sessions) :
            /\ sessions[i].id = last.id
            /\ sessions[i].messages # <<>>
            /\ sessions[i].messages[Len(sessions[i].messages)].id = last.ret.id
            /\ sessions[i].messages[Len(sessions[i].messages)].role = "assistant"

====
